---------------------------- MODULE Spec2Model ----------------------------
(***************************************************************************)
(* Model of the Mamdani fuzzy fan controller of src/src/main.rs:           *)
(* membership functions, fuzzification, rule firing, Center-of-Area       *)
(* defuzzification and FuzzyController::compute, and the App that keeps    *)
(* the history of the computed values and handles the key events.         *)
(*                                                                         *)
(* Numbers.  The program computes in f64.  An f64 value is modelled as an  *)
(* exact rational <<n, d>> in lowest terms with d > 0; the three           *)
(* non-finite results of an IEEE division by zero are <<1, 0>> (+inf),     *)
(* <<-1, 0>> (-inf) and <<0, 0>> (NaN).  Rounding error of f64 arithmetic *)
(* is not modelled (it is a few ulp here: the sample point of i = 7 is     *)
(* 7.000000000000001 in f64 and 7 in the model), nor is the sign of zero.  *)
(* Inputs are finite values of a grid; NaN and infinite inputs are not     *)
(* drawn.                                                                  *)
(***************************************************************************)
EXTENDS Integers, Sequences, FiniteSets

VARIABLES
    temperature,         \* compute's argument `temperature`; App.temperature
    humidity,            \* compute's argument `humidity`; App.humidity
    temp_sets,           \* compute's local `temp_sets`
    humidity_sets,       \* compute's local `humidity_sets`
    output_memberships,  \* compute's local `output_memberships`
    fan_speed,           \* the value compute returns; App.fan_speed
    pc,                  \* position inside compute, or inside main's loop
    shape,               \* <<x, a, b, c, d>>: arguments of a membership function
    trap_degree,         \* trapezoidal(x, a, b, c, d)
    tri_degree,          \* triangular(x, a, b, c)
    input_mode,          \* App.input_mode
    input_buffer,        \* App.input_buffer, a sequence of characters
    message,             \* App.message (without the number formatted into it)
    history,             \* App.history
    sessions             \* number of entries started with 't' or 'h'

compute_vars == <<temp_sets, humidity_sets, output_memberships>>

shape_vars == <<shape, trap_degree, tri_degree>>

app_vars == <<input_mode, input_buffer, message, history, sessions>>

vars == <<temperature, humidity, temp_sets, humidity_sets, output_memberships,
          fan_speed, pc, shape, trap_degree, tri_degree,
          input_mode, input_buffer, message, history, sessions>>

---------------------------------------------------------------------------
(* f64 arithmetic on exact rationals *)

Abs(n) == IF n < 0 THEN -n ELSE n

Sign(n) == IF n < 0 THEN -1 ELSE IF n > 0 THEN 1 ELSE 0

RECURSIVE Gcd(_, _)
Gcd(a, b) == IF b = 0 THEN a ELSE Gcd(b, a % b)

\* The f64 with value n/d (d # 0), or the non-finite value of sign n (d = 0).
Rat(n, d) ==
    IF d = 0 THEN <<Sign(n), 0>>
    ELSE LET g == Gcd(Abs(n), Abs(d))
             s == IF d < 0 THEN -1 ELSE 1
         IN  <<s * (n \div g), s * (d \div g)>>

\* An integer literal such as 15.0
F(n) == <<n, 1>>

NaN == <<0, 0>>

IsNaN(p) == p = NaN

IsFinite(p) == p[2] # 0

\* a/b < c/d for b, d > 0, by continued fractions (no product is formed)
RECURSIVE FracLt(_, _, _, _)
FracLt(a, b, c, d) ==
    LET qa == a \div b
        qc == c \div d
        ra == a % b
        rc == c % d
    IN  IF qa # qc THEN qa < qc
        ELSE IF rc = 0 THEN FALSE
        ELSE IF ra = 0 THEN TRUE
        ELSE FracLt(d, rc, b, ra)

\* p < q on f64: every comparison with NaN is false
Lt(p, q) ==
    IF p[2] = 1 /\ q[2] = 1 THEN p[1] < q[1]
    ELSE IF IsNaN(p) \/ IsNaN(q) THEN FALSE
    ELSE IF ~IsFinite(p) THEN p[1] < 0 /\ q # p
    ELSE IF ~IsFinite(q) THEN q[1] > 0
    ELSE IF p[2] = q[2] THEN p[1] < q[1]
    ELSE FracLt(p[1], p[2], q[1], q[2])

\* p == q on f64
Eq(p, q) == p = q /\ ~IsNaN(p)

Le(p, q) == Lt(p, q) \/ Eq(p, q)

Gt(p, q) == Lt(q, p)

Ge(p, q) == Le(q, p)

Neg(p) == <<-p[1], p[2]>>

\* p + q on f64
Add(p, q) ==
    IF p[2] = 1 /\ q[2] = 1 THEN <<p[1] + q[1], 1>>
    ELSE IF IsNaN(p) \/ IsNaN(q) THEN NaN
    ELSE IF ~IsFinite(p) /\ ~IsFinite(q) THEN (IF p = q THEN p ELSE NaN)
    ELSE IF ~IsFinite(p) THEN p
    ELSE IF ~IsFinite(q) THEN q
    ELSE LET g == Gcd(p[2], q[2])
             l == (p[2] \div g) * q[2]
         IN  Rat(p[1] * (l \div p[2]) + q[1] * (l \div q[2]), l)

\* p - q on f64
Sub(p, q) == Add(p, Neg(q))

\* p * q on f64
Mul(p, q) ==
    IF p[2] = 1 /\ q[2] = 1 THEN <<p[1] * q[1], 1>>
    ELSE IF IsNaN(p) \/ IsNaN(q) THEN NaN
    ELSE IF ~IsFinite(p) \/ ~IsFinite(q)
         THEN Rat(Sign(p[1]) * Sign(q[1]), 0)
    ELSE LET g1 == Gcd(Abs(p[1]), q[2])
             g2 == Gcd(Abs(q[1]), p[2])
         IN  <<(p[1] \div g1) * (q[1] \div g2), (p[2] \div g2) * (q[2] \div g1)>>

\* p / q on f64: x/0 is +inf or -inf, 0/0 is NaN
Div(p, q) ==
    IF IsNaN(p) \/ IsNaN(q) THEN NaN
    ELSE IF ~IsFinite(p)
         THEN (IF IsFinite(q) THEN Rat(p[1] * (IF q[1] < 0 THEN -1 ELSE 1), 0) ELSE NaN)
    ELSE IF ~IsFinite(q) THEN F(0)
    ELSE IF q[1] = 0 THEN Rat(p[1], 0)
    ELSE IF q[2] = 1 /\ p[2] = 1 THEN Rat(p[1], q[1])
    ELSE Mul(p, <<Sign(q[1]) * q[2], Abs(q[1])>>)

\* f64::min: the other operand when one is NaN
Min(p, q) ==
    IF IsNaN(p) THEN q
    ELSE IF IsNaN(q) THEN p
    ELSE IF Lt(q, p) THEN q ELSE p

\* f64::max: the other operand when one is NaN
Max(p, q) ==
    IF IsNaN(p) THEN q
    ELSE IF IsNaN(q) THEN p
    ELSE IF Lt(p, q) THEN q ELSE p

---------------------------------------------------------------------------
(* Membership functions *)

\* trapezoidal without the saturation guard of its first branch
trapezoidal_unguarded(x, a, b, c, d) ==
    IF Ge(x, b) /\ Le(x, c) THEN F(1)
    ELSE IF Gt(x, a) /\ Lt(x, b) THEN Div(Sub(x, a), Sub(b, a))
    ELSE Div(Sub(d, x), Sub(d, c))

\* trapezoidal with the plateau test ahead of the saturation test
trapezoidal_plateau_first(x, a, b, c, d) ==
    IF Ge(x, b) /\ Le(x, c) THEN F(1)
    ELSE IF Le(x, a) \/ Ge(x, d) THEN F(0)
    ELSE IF Gt(x, a) /\ Lt(x, b) THEN Div(Sub(x, a), Sub(b, a))
    ELSE Div(Sub(d, x), Sub(d, c))

\* trapezoidal with `x > d` in place of `x >= d`
trapezoidal_closed_right(x, a, b, c, d) ==
    IF Le(x, a) \/ Gt(x, d) THEN F(0)
    ELSE IF Ge(x, b) /\ Le(x, c) THEN F(1)
    ELSE IF Gt(x, a) /\ Lt(x, b) THEN Div(Sub(x, a), Sub(b, a))
    ELSE Div(Sub(d, x), Sub(d, c))

trapezoidal(x, a, b, c, d) ==
    IF Le(x, a) \/ Ge(x, d) THEN F(0)
    ELSE IF Ge(x, b) /\ Le(x, c) THEN F(1)
    ELSE IF Gt(x, a) /\ Lt(x, b) THEN Div(Sub(x, a), Sub(b, a))
    ELSE Div(Sub(d, x), Sub(d, c))

triangular(x, a, b, c) ==
    IF Le(x, a) \/ Ge(x, c) THEN F(0)
    ELSE IF Eq(x, b) THEN F(1)
    ELSE IF Gt(x, a) /\ Lt(x, b) THEN Div(Sub(x, a), Sub(b, a))
    ELSE Div(Sub(c, x), Sub(c, b))

---------------------------------------------------------------------------
(* Fuzzy variables *)

FuzzySet(n, m) == [name |-> n, membership |-> m]

fuzzify_temperature(temp) ==
    << FuzzySet("Cold", trapezoidal(temp, F(0), F(0), F(15), F(20))),
       FuzzySet("Mild", triangular(temp, F(15), Rat(45, 2), F(30))),
       FuzzySet("Hot", trapezoidal(temp, F(25), F(30), F(50), F(50))) >>

fuzzify_humidity(h) ==
    << FuzzySet("Low", trapezoidal(h, F(0), F(0), F(30), F(50))),
       FuzzySet("Medium", triangular(h, F(30), F(50), F(70))),
       FuzzySet("High", trapezoidal(h, F(50), F(70), F(100), F(100))) >>

fan_speed_sets ==
    << <<"Off", F(0), F(0), F(20)>>,
       <<"Low", F(0), F(25), F(50)>>,
       <<"Medium", F(25), F(50), F(75)>>,
       <<"High", F(50), F(100), F(100)>> >>

---------------------------------------------------------------------------
(* Fuzzy rules *)

FuzzyRule(t, h, f) ==
    [temp_condition |-> t, humidity_condition |-> h, fan_speed_output |-> f]

\* the rule base with the consequent of rule 5 mistyped
create_rules_rule5_low ==
    << FuzzyRule("Cold", "Low", "Off"),
       FuzzyRule("Cold", "Medium", "Off"),
       FuzzyRule("Cold", "High", "Low"),
       FuzzyRule("Mild", "Low", "Low"),
       FuzzyRule("Mild", "Medium", "Low"),
       FuzzyRule("Mild", "High", "Medium"),
       FuzzyRule("Hot", "Low", "Medium"),
       FuzzyRule("Hot", "Medium", "High"),
       FuzzyRule("Hot", "High", "High") >>

create_rules ==
    << FuzzyRule("Cold", "Low", "Off"),
       FuzzyRule("Cold", "Medium", "Off"),
       FuzzyRule("Cold", "High", "Low"),
       FuzzyRule("Mild", "Low", "Low"),
       FuzzyRule("Mild", "Medium", "Medium"),
       FuzzyRule("Mild", "High", "Medium"),
       FuzzyRule("Hot", "Low", "Medium"),
       FuzzyRule("Hot", "Medium", "High"),
       FuzzyRule("Hot", "High", "High") >>

---------------------------------------------------------------------------
(* Fuzzy inference engine *)

\* sets.iter().find(|s| s.name == name).map(|s| s.membership).unwrap_or(0.0)
RECURSIVE find_membership(_, _, _)
find_membership(sets, name, k) ==
    IF k > Len(sets) THEN F(0)
    ELSE IF sets[k].name = name THEN sets[k].membership
    ELSE find_membership(sets, name, k + 1)

\* apply_rule with the test `rule_strength >= 0.0`
apply_rule_keep_zero(tsets, hsets, rule, out) ==
    LET temp_membership == find_membership(tsets, rule.temp_condition, 1)
        humidity_membership == find_membership(hsets, rule.humidity_condition, 1)
        rule_strength == Min(temp_membership, humidity_membership)
    IN  IF Ge(rule_strength, F(0))
        THEN Append(out, <<rule.fan_speed_output, rule_strength>>)
        ELSE out

\* one iteration of the loop over the rules: the output list after `rule`
apply_rule(tsets, hsets, rule, out) ==
    LET temp_membership == find_membership(tsets, rule.temp_condition, 1)
        humidity_membership == find_membership(hsets, rule.humidity_condition, 1)
        rule_strength == Min(temp_membership, humidity_membership)
    IN  IF Gt(rule_strength, F(0))
        THEN Append(out, <<rule.fan_speed_output, rule_strength>>)
        ELSE out

RECURSIVE apply_rules_from(_, _, _, _, _)
apply_rules_from(tsets, hsets, rules, k, out) ==
    IF k > Len(rules) THEN out
    ELSE apply_rules_from(tsets, hsets, rules, k + 1,
                          apply_rule(tsets, hsets, rules[k], out))

apply_rules(tsets, hsets, rules) ==
    apply_rules_from(tsets, hsets, rules, 1, <<>>)

---------------------------------------------------------------------------
(* Defuzzification: Center of Area *)

resolution == 100

\* fan_sets.iter().find(|(name, _, _, _)| name == output_name): an index, 0 for None
RECURSIVE find_fan_set(_, _, _)
find_fan_set(fan_sets, output_name, k) ==
    IF k > Len(fan_sets) THEN 0
    ELSE IF fan_sets[k][1] = output_name THEN k
    ELSE find_fan_set(fan_sets, output_name, k + 1)

\* implied_membership with max in place of min
implied_membership_max(rule_strength, set_membership) ==
    Max(rule_strength, set_membership)

implied_membership(rule_strength, set_membership) ==
    Min(rule_strength, set_membership)

\* the inner loop over output_memberships at the sample point x
RECURSIVE max_membership_from(_, _, _, _)
max_membership_from(x, oms, k, max_membership) ==
    IF k > Len(oms) THEN max_membership
    ELSE LET fan_sets == fan_speed_sets
             j == find_fan_set(fan_sets, oms[k][1], 1)
         IN  IF j = 0 THEN max_membership_from(x, oms, k + 1, max_membership)
             ELSE LET set_membership ==
                          triangular(x, fan_sets[j][2], fan_sets[j][3], fan_sets[j][4])
                      implied == implied_membership(oms[k][2], set_membership)
                  IN  max_membership_from(x, oms, k + 1, Max(max_membership, implied))

\* let x = (i as f64 / resolution as f64) * 100.0
sample_point(i) == Mul(Div(F(i), F(resolution)), F(100))

\* one iteration of the outer loop: the terms <<x * max_membership, max_membership>>
\* that sample i adds to numerator and denominator
sample_terms(oms, i) ==
    LET x == sample_point(i)
        max_membership == max_membership_from(x, oms, 1, F(0))
    IN  <<Mul(x, max_membership), max_membership>>

\* the outer loop: <<numerator, denominator>> summed over the samples lo..hi.
\* The sums are exact here, so the order of the additions is immaterial; the
\* range is halved to keep the evaluation shallow.
RECURSIVE accumulate(_, _, _)
accumulate(oms, lo, hi) ==
    IF lo = hi THEN sample_terms(oms, lo)
    ELSE LET mid == (lo + hi) \div 2
             left == accumulate(oms, lo, mid)
             right == accumulate(oms, mid + 1, hi)
         IN  <<Add(left[1], right[1]), Add(left[2], right[2])>>

\* centroid without the zero-denominator branch
centroid_unguarded(sums) == Div(sums[1], sums[2])

\* the final branch: 0.0 for a zero denominator, else the quotient
centroid(sums) ==
    IF Eq(sums[2], F(0)) THEN F(0) ELSE Div(sums[1], sums[2])

defuzzify(oms) == centroid(accumulate(oms, 0, resolution))

---------------------------------------------------------------------------
(* Fuzzy controller *)

compute(t, h) ==
    defuzzify(apply_rules(fuzzify_temperature(t), fuzzify_humidity(h), create_rules))

---------------------------------------------------------------------------
(* Inputs *)

\* grid points beyond each end of the nominal domains [0, 50] and [0, 100]
Margin == 2

\* whole degrees, and the peak 22.5 of Mild
Temperatures == {F(k) : k \in (-Margin)..(50 + Margin)} \cup {Rat(45, 2)}

\* every fifth percent
Humidities == {F(5 * k) : k \in (-Margin)..(20 + Margin)}

NoShape == <<F(0), F(0), F(0), F(0), F(0)>>

---------------------------------------------------------------------------
(* One call of FuzzyController::compute *)

Init ==
    /\ temperature \in Temperatures
    /\ humidity \in Humidities
    /\ temp_sets = <<>>
    /\ humidity_sets = <<>>
    /\ output_memberships = <<>>
    /\ fan_speed = F(0)
    /\ pc = "fuzzify"
    /\ shape = NoShape
    /\ trap_degree = F(0)
    /\ tri_degree = F(0)
    /\ input_mode = "Menu"
    /\ input_buffer = <<>>
    /\ message = ""
    /\ history = <<>>
    /\ sessions = 0

Fuzzify ==
    /\ pc = "fuzzify"
    /\ temp_sets' = fuzzify_temperature(temperature)
    /\ humidity_sets' = fuzzify_humidity(humidity)
    /\ pc' = "apply_rules"
    /\ UNCHANGED <<temperature, humidity, output_memberships, fan_speed,
                   shape, trap_degree, tri_degree, app_vars>>

ApplyRules ==
    /\ pc = "apply_rules"
    /\ output_memberships' = apply_rules(temp_sets, humidity_sets, create_rules)
    /\ pc' = "defuzzify"
    /\ UNCHANGED <<temperature, humidity, temp_sets, humidity_sets, fan_speed,
                   shape, trap_degree, tri_degree, app_vars>>

Defuzzify ==
    /\ pc = "defuzzify"
    /\ fan_speed' = defuzzify(output_memberships)
    /\ pc' = "done"
    /\ UNCHANGED <<temperature, humidity, temp_sets, humidity_sets,
                   output_memberships, shape, trap_degree, tri_degree, app_vars>>

Next == Fuzzify \/ ApplyRules \/ Defuzzify

Spec == Init /\ [][Next]_vars

---------------------------------------------------------------------------
(* The membership functions on their own, over every well-formed shape *)

\* largest breakpoint of a probed shape
MaxParam == 4

Shapes ==
    {<<F(x), F(a), F(b), F(c), F(d)>> :
        x \in (-1)..(MaxParam + 1), a \in 0..MaxParam, b \in 0..MaxParam,
        c \in 0..MaxParam, d \in 0..MaxParam}

\* a <= b <= c <= d
WellFormed(sh) == Le(sh[2], sh[3]) /\ Le(sh[3], sh[4]) /\ Le(sh[4], sh[5])

\* a < c: the trapezoid (a, b, c, d) and the triangle (a, b, c) are not a point
NonEmpty(sh) == Lt(sh[2], sh[4])

ShapeInit ==
    /\ shape \in {sh \in Shapes : WellFormed(sh) /\ NonEmpty(sh)}
    /\ pc = "trapezoidal"
    /\ trap_degree = F(0)
    /\ tri_degree = F(0)
    /\ temperature = F(0)
    /\ humidity = F(0)
    /\ temp_sets = <<>>
    /\ humidity_sets = <<>>
    /\ output_memberships = <<>>
    /\ fan_speed = F(0)
    /\ input_mode = "Menu"
    /\ input_buffer = <<>>
    /\ message = ""
    /\ history = <<>>
    /\ sessions = 0

\* trapezoidal(x, a, b, c, d)
EvalTrapezoidal ==
    /\ pc = "trapezoidal"
    /\ trap_degree' = trapezoidal(shape[1], shape[2], shape[3], shape[4], shape[5])
    /\ pc' = "triangular"
    /\ UNCHANGED <<temperature, humidity, temp_sets, humidity_sets,
                   output_memberships, fan_speed, shape, tri_degree, app_vars>>

\* triangular(x, a, b, c)
EvalTriangular ==
    /\ pc = "triangular"
    /\ tri_degree' = triangular(shape[1], shape[2], shape[3], shape[4])
    /\ pc' = "evaluated"
    /\ UNCHANGED <<temperature, humidity, temp_sets, humidity_sets,
                   output_memberships, fan_speed, shape, trap_degree, app_vars>>

ShapeNext == EvalTrapezoidal \/ EvalTriangular

ShapeSpec == ShapeInit /\ [][ShapeNext]_vars

---------------------------------------------------------------------------
(* Application state and event handling *)

\* compute_fan_speed evicting the newest entry instead of the oldest
compute_fan_speed_evict_newest(t, h, hist) ==
    LET speed == compute(t, h)
        pushed == Append(hist, <<t, h, speed>>)
    IN  <<speed,
          IF Len(pushed) > 10 THEN SubSeq(pushed, 1, Len(pushed) - 1) ELSE pushed>>

\* App::compute_fan_speed: <<fan_speed, history>> after the call
compute_fan_speed(t, h, hist) ==
    LET speed == compute(t, h)
        pushed == Append(hist, <<t, h, speed>>)
    IN  <<speed, IF Len(pushed) > 10 THEN Tail(pushed) ELSE pushed>>

\* f64::clamp
clamp(val, lo, hi) ==
    IF Lt(val, lo) THEN lo ELSE IF Gt(val, hi) THEN hi ELSE val

Digits == <<"0", "1", "2", "3", "4", "5", "6", "7", "8", "9">>

\* the value of a decimal digit, -1 for any other character
digit_value(c) ==
    IF \E i \in 1..Len(Digits) : Digits[i] = c
    THEN (CHOOSE i \in 1..Len(Digits) : Digits[i] = c) - 1
    ELSE -1

\* the number written by the digits s[k..], after the digits of value acc;
\* -1 when a character is no digit
RECURSIVE parse_digits(_, _, _)
parse_digits(s, k, acc) ==
    IF k > Len(s) THEN acc
    ELSE IF digit_value(s[k]) < 0 THEN -1
    ELSE parse_digits(s, k + 1, 10 * acc + digit_value(s[k]))

\* str::parse::<f64> on strings of digits, '-' and other characters:
\* an optional sign and at least one digit, else Err
parse_f64(s) ==
    LET negative == s # <<>> /\ Head(s) = "-"
        digits == IF negative THEN Tail(s) ELSE s
        n == IF digits = <<>> THEN -1 ELSE parse_digits(digits, 1, 0)
    IN  IF n < 0 THEN [ok |-> FALSE, val |-> F(0)]
        ELSE [ok |-> TRUE, val |-> IF negative THEN F(-n) ELSE F(n)]

\* longest text typed into the input buffer
MaxBuf == 2

\* number of entries ('t' or 'h') started in one run
MaxSessions == 1

\* the characters typed
Chars == {"6", "-", "x"}

\* the pairs rng.gen_range(10.0..40.0), rng.gen_range(20.0..90.0) draws
Randoms == {<<F(10), F(20)>>}

\* App::new() followed by main's first app.compute_fan_speed(); a message is
\* written by its leading words, without the number formatted into it
AppInit ==
    /\ temperature = F(25)
    /\ humidity = F(50)
    /\ \E r \in {compute_fan_speed(F(25), F(50), <<>>)} :
          fan_speed = r[1] /\ history = r[2]
    /\ input_mode = "Menu"
    /\ input_buffer = <<>>
    /\ message = "Welcome!"
    /\ pc = "loop"
    /\ sessions = 0
    /\ temp_sets = <<>>
    /\ humidity_sets = <<>>
    /\ output_memberships = <<>>
    /\ shape = NoShape
    /\ trap_degree = F(0)
    /\ tri_degree = F(0)

\* Menu, 'q'
KeyQuit ==
    /\ pc = "loop" /\ input_mode = "Menu"
    /\ pc' = "quit"
    /\ UNCHANGED <<temperature, humidity, fan_speed, app_vars, compute_vars, shape_vars>>

\* Menu, 'r': App::generate_random
KeyRandom ==
    /\ pc = "loop" /\ input_mode = "Menu"
    /\ \E rv \in Randoms :
          \E r \in {compute_fan_speed(rv[1], rv[2], history)} :
              /\ temperature' = rv[1]
              /\ humidity' = rv[2]
              /\ fan_speed' = r[1]
              /\ history' = r[2]
    /\ message' = "Generated random values!"
    /\ UNCHANGED <<pc, input_mode, input_buffer, sessions, compute_vars, shape_vars>>

\* Menu, 't' or 'h': start an entry
KeyEntry(mode) ==
    /\ pc = "loop" /\ input_mode = "Menu"
    /\ sessions < MaxSessions
    /\ sessions' = sessions + 1
    /\ input_mode' = mode
    /\ input_buffer' = <<>>
    /\ message' = IF mode = "Temperature" THEN "Enter temperature" ELSE "Enter humidity"
    /\ UNCHANGED <<temperature, humidity, fan_speed, history, pc, compute_vars, shape_vars>>

\* Temperature, Enter
EnterTemperature ==
    /\ pc = "loop" /\ input_mode = "Temperature"
    /\ LET parsed == parse_f64(input_buffer)
           val == clamp(parsed.val, F(0), F(50))
       IN  IF parsed.ok
           THEN \E r \in {compute_fan_speed(val, humidity, history)} :
                /\ temperature' = val
                /\ fan_speed' = r[1]
                /\ history' = r[2]
                /\ message' = "Temperature set"
           ELSE /\ message' = "Invalid input! Try again."
                /\ UNCHANGED <<temperature, fan_speed, history>>
    /\ input_mode' = "Menu"
    /\ input_buffer' = <<>>
    /\ UNCHANGED <<humidity, pc, sessions, compute_vars, shape_vars>>

\* Humidity, Enter
EnterHumidity ==
    /\ pc = "loop" /\ input_mode = "Humidity"
    /\ LET parsed == parse_f64(input_buffer)
           val == clamp(parsed.val, F(0), F(100))
       IN  IF parsed.ok
           THEN \E r \in {compute_fan_speed(temperature, val, history)} :
                /\ humidity' = val
                /\ fan_speed' = r[1]
                /\ history' = r[2]
                /\ message' = "Humidity set"
           ELSE /\ message' = "Invalid input! Try again."
                /\ UNCHANGED <<humidity, fan_speed, history>>
    /\ input_mode' = "Menu"
    /\ input_buffer' = <<>>
    /\ UNCHANGED <<temperature, pc, sessions, compute_vars, shape_vars>>

\* Temperature or Humidity, a character
KeyChar ==
    /\ pc = "loop" /\ input_mode \in {"Temperature", "Humidity"}
    /\ Len(input_buffer) < MaxBuf
    /\ \E c \in Chars : input_buffer' = Append(input_buffer, c)
    /\ UNCHANGED <<temperature, humidity, fan_speed, pc, input_mode, message,
                   history, sessions, compute_vars, shape_vars>>

\* Temperature or Humidity, Backspace
KeyBackspace ==
    /\ pc = "loop" /\ input_mode \in {"Temperature", "Humidity"}
    /\ input_buffer' = IF input_buffer = <<>> THEN <<>>
                       ELSE SubSeq(input_buffer, 1, Len(input_buffer) - 1)
    /\ UNCHANGED <<temperature, humidity, fan_speed, pc, input_mode, message,
                   history, sessions, compute_vars, shape_vars>>

\* Temperature or Humidity, Esc
KeyEsc ==
    /\ pc = "loop" /\ input_mode \in {"Temperature", "Humidity"}
    /\ input_mode' = "Menu"
    /\ message' = "Cancelled."
    /\ input_buffer' = <<>>
    /\ UNCHANGED <<temperature, humidity, fan_speed, pc, history, sessions,
                   compute_vars, shape_vars>>

\* any other key, an event that is no key, or no event within the poll
KeyOther ==
    /\ pc = "loop"
    /\ UNCHANGED vars

AppNext ==
    \/ KeyQuit
    \/ KeyRandom
    \/ KeyEntry("Temperature")
    \/ KeyEntry("Humidity")
    \/ EnterTemperature
    \/ EnterHumidity
    \/ KeyChar
    \/ KeyBackspace
    \/ KeyEsc
    \/ KeyOther

AppSpec == AppInit /\ [][AppNext]_vars

---------------------------------------------------------------------------
(* Properties *)

Done == pc = "done"

Fuzzified == pc \in {"apply_rules", "defuzzify", "done"}

Fired == pc \in {"defuzzify", "done"}

\* the degree fuzzification gave to `label`
Degree(sets, label) ==
    sets[CHOOSE k \in 1..Len(sets) : sets[k].name = label].membership

InUnit(m) == IsFinite(m) /\ Le(F(0), m) /\ Le(m, F(1))

\* C1: for every finite (temperature, humidity), inside or outside the nominal
\* domains [0,50] and [0,100], compute returns a value in [0.0, 100.0].
C1_ComputeBounded ==
    Done => IsFinite(fan_speed) /\ Le(F(0), fan_speed) /\ Le(fan_speed, F(100))

\* compute has returned for a temperature above 50 and a humidity below 0
C1_Witness ==
    Done /\ Gt(temperature, F(50)) /\ Lt(humidity, F(0)) /\ Eq(fan_speed, F(0))

\* C2: when no rule fires (empty firing result, denominator exactly 0) compute
\* returns exactly 0.0; in particular compute(50, 0) = compute(50, 100) = 0.0.
C2_NoRuleFiresGivesZero ==
    /\ Done /\ output_memberships = <<>>
         => /\ Eq(accumulate(output_memberships, 0, resolution)[2], F(0))
            /\ Eq(fan_speed, F(0))
    /\ Done /\ temperature = F(50) /\ humidity \in {F(0), F(100)}
         => output_memberships = <<>> /\ Eq(fan_speed, F(0))

\* compute(50, 100) has returned with an empty firing result
C2_Witness ==
    /\ Done /\ temperature = F(50) /\ humidity = F(100)
    /\ output_memberships = <<>>
    /\ Eq(fan_speed, F(0))

\* C3: at temperature 0.0 and humidity 0.0, Cold = 1.0 and Low = 1.0, the firing
\* result is exactly <<(Off, 1.0)>>, and compute returns the centroid of the
\* unclipped Off set: greater than 0 and at most about 7.
C3_ColdestDriestIsOff ==
    Done /\ temperature = F(0) /\ humidity = F(0)
        => /\ Eq(Degree(temp_sets, "Cold"), F(1))
           /\ Eq(Degree(humidity_sets, "Low"), F(1))
           /\ output_memberships = << <<"Off", F(1)>> >>
           /\ Gt(fan_speed, F(0))
           /\ Le(fan_speed, F(8))

\* C4: at temperature 25.0 and humidity 50.0, Hot = 0.0, Mild > 0 and compute
\* returns a value in the Medium range, between 40 and 60.
C4_MildMediumIsMedium ==
    Done /\ temperature = F(25) /\ humidity = F(50)
        => /\ Eq(Degree(temp_sets, "Hot"), F(0))
           /\ Gt(Degree(temp_sets, "Mild"), F(0))
           /\ Le(F(40), fan_speed)
           /\ Le(fan_speed, F(60))

\* compute(25, 50) has returned, rule 5 alone having fired
C4_Witness ==
    /\ Done /\ temperature = F(25) /\ humidity = F(50)
    /\ output_memberships = << <<"Medium", Rat(2, 3)>> >>
    /\ Eq(fan_speed, F(50))

\* C5: for every well-formed trapezoid a <= b <= c <= d, degenerate or not,
\* trapezoidal(x, a, b, c, d) is exactly 1.0 for every x in the plateau [b, c].
C5_PlateauIsOne ==
    pc \in {"triangular", "evaluated"} /\ Le(shape[3], shape[1]) /\ Le(shape[1], shape[4])
        => Eq(trap_degree, F(1))

\* C6: for every triangle a <= b <= c, also with the peak at an endpoint,
\* triangular(b, a, b, c) is exactly 1.0.
C6_PeakIsOne ==
    pc = "evaluated" /\ Eq(shape[1], shape[3]) => Eq(tri_degree, F(1))

\* the fixed rule table: temperature label, humidity label, fan-speed label
RuleTable ==
    << <<"Cold", "Low", "Off">>,    <<"Cold", "Medium", "Off">>,
       <<"Cold", "High", "Low">>,   <<"Mild", "Low", "Low">>,
       <<"Mild", "Medium", "Medium">>, <<"Mild", "High", "Medium">>,
       <<"Hot", "Low", "Medium">>,  <<"Hot", "Medium", "High">>,
       <<"Hot", "High", "High">> >>

\* min(temperature-label degree, humidity-label degree) of rule k of the table
Strength(k) ==
    Min(Degree(temp_sets, RuleTable[k][1]), Degree(humidity_sets, RuleTable[k][2]))

\* the rules of the table whose strength is > 0
Firing == {k \in 1..9 : Gt(Strength(k), F(0))}

\* the j-th firing rule, in table order
NthFiring(j) == CHOOSE k \in Firing : Cardinality({m \in Firing : m < k}) = j - 1

\* C7: apply_rules returns exactly one (fan-speed label, strength) pair for each
\* of the 9 rules whose strength min(temperature degree, humidity degree) is > 0,
\* with that min as its strength, in rule-base order, pairs with the same label
\* kept apart and no pair of strength 0.
C7_FiringResult ==
    Fired =>
        /\ Len(output_memberships) = Cardinality(Firing)
        /\ \A j \in 1..Len(output_memberships) :
              /\ output_memberships[j] =
                     <<RuleTable[NthFiring(j)][3], Strength(NthFiring(j))>>
              /\ Gt(output_memberships[j][2], F(0))

\* apply_rules has returned four pairs, two of them with the same label, while
\* other rules had strength 0
C7_Witness ==
    /\ Fired
    /\ Len(output_memberships) = 4
    /\ Cardinality(Firing) = 4
    /\ \E i, j \in 1..4 : i < j /\ output_memberships[i][1] = output_memberships[j][1]

\* C8: with humidity held at 50, raising the temperature never lowers the
\* output: compute(t2, 50) >= compute(t1, 50) for whole degrees t1 < t2 of [0, 50].
C8_MonotoneInTemperature ==
    Done /\ humidity = F(50) /\ temperature \in {F(t) : t \in 0..50}
        => \A t2 \in (temperature[1] + 1)..50 :
               Ge(compute(F(t2), F(50)), fan_speed)

\* C9: for every finite input, inside or outside the nominal domain, every degree
\* of fuzzify_temperature and fuzzify_humidity lies in [0.0, 1.0], and no
\* evaluation of a fixed shape divides by zero (the quotient would not be finite).
C9_DegreesInUnitInterval ==
    /\ Fuzzified =>
          /\ \A k \in 1..Len(temp_sets) : InUnit(temp_sets[k].membership)
          /\ \A k \in 1..Len(humidity_sets) : InUnit(humidity_sets[k].membership)
    /\ Done =>
          \A i \in 0..resolution, j \in 1..Len(fan_speed_sets) :
              InUnit(triangular(sample_point(i), fan_speed_sets[j][2],
                                fan_speed_sets[j][3], fan_speed_sets[j][4]))

\* fuzzification has returned for a temperature above 50 and a humidity below 0
C9_Witness ==
    /\ Fuzzified /\ Gt(temperature, F(50)) /\ Lt(humidity, F(0))
    /\ Len(temp_sets) = 3 /\ Len(humidity_sets) = 3
    /\ Eq(Degree(temp_sets, "Hot"), F(0))
    /\ Eq(Degree(humidity_sets, "Low"), F(0))

\* the (label, strength) pair of rule k, whatever its strength
PairOf(k) ==
    <<create_rules[k].fan_speed_output,
      Min(find_membership(temp_sets, create_rules[k].temp_condition, 1),
          find_membership(humidity_sets, create_rules[k].humidity_condition, 1))>>

\* all 9 (label, strength) pairs, those of strength 0 included
AllPairs ==
    <<PairOf(1), PairOf(2), PairOf(3), PairOf(4), PairOf(5),
      PairOf(6), PairOf(7), PairOf(8), PairOf(9)>>

Positive(pair) == Gt(pair[2], F(0))

\* C10: dropping the zero-strength rules before defuzzification is the same as
\* keeping them: defuzzify of the firing result equals defuzzify of all 9 pairs.
C10_ZeroStrengthIsNoOp ==
    Done => /\ output_memberships = SelectSeq(AllPairs, Positive)
            /\ Eq(defuzzify(AllPairs), fan_speed)

\* compute has returned a positive value with some rules dropped and some kept
C10_Witness ==
    /\ Done
    /\ Len(output_memberships) \in 1..8
    /\ \E k \in 1..9 : Eq(AllPairs[k][2], F(0))
    /\ Gt(fan_speed, F(0))

\* 0 < temperature < 50 and 0 < humidity < 100
StrictlyInside ==
    /\ Gt(temperature, F(0)) /\ Lt(temperature, F(50))
    /\ Gt(humidity, F(0)) /\ Lt(humidity, F(100))

\* C11: compute(t, h) > 0 if and only if 0 < t < 50 and 0 < h < 100: strictly
\* inside both domains at least one rule fires and the centroid is positive; at
\* the endpoints and outside the domains no rule fires and the result is 0.0.
C11_PositiveIffStrictlyInside ==
    Done =>
        /\ Gt(fan_speed, F(0)) <=> StrictlyInside
        /\ StrictlyInside => output_memberships # <<>>
        /\ ~StrictlyInside => output_memberships = <<>> /\ Eq(fan_speed, F(0))

\* compute has returned a positive value next to the upper endpoints
C11_Witness ==
    /\ Done /\ temperature = F(49) /\ humidity = F(95)
    /\ output_memberships # <<>>
    /\ Gt(fan_speed, F(0))

\* the (temperature, humidity, fan_speed) triple the App shows
Current == <<temperature, humidity, fan_speed>>

\* the most recent entries of a history, at most 10
MostRecent(hist) ==
    IF Len(hist) > 10 THEN SubSeq(hist, Len(hist) - 9, Len(hist)) ELSE hist

\* history is bounded and ends with the triple the App shows
HistoryBounded ==
    /\ Len(history) \in 1..10
    /\ history[Len(history)] = Current

\* the step of a key that computes: 'r' in the menu, or Enter on a valid number
Computed ==
    /\ pc = "loop" /\ pc' = "loop"
    /\ input_mode' = "Menu"
    /\ \/ input_mode = "Menu" /\ message' = "Generated random values!"
       \/ input_mode = "Temperature" /\ message' = "Temperature set"
       \/ input_mode = "Humidity" /\ message' = "Humidity set"

\* the step of Enter on an invalid input, or of Esc
Rejected ==
    /\ input_mode \in {"Temperature", "Humidity"}
    /\ input_mode' = "Menu"
    /\ message' \in {"Invalid input! Try again.", "Cancelled."}

\* what one key event does to the history
HistoryStep ==
    /\ Computed =>
          /\ fan_speed' = compute(temperature', humidity')
          /\ history' = MostRecent(Append(history, Current'))
    /\ ~Computed => UNCHANGED <<history, temperature, humidity, fan_speed>>
    /\ Rejected => UNCHANGED <<history, temperature, humidity, fan_speed>>

\* C12: after any sequence of key events history holds at most 10 entries and
\* is the most recent computed (temperature, humidity, fan_speed) triples in
\* chronological order, the oldest evicted first; its last entry is the App's
\* current triple; an invalid or cancelled entry leaves history, temperature,
\* humidity and fan_speed unchanged.
C12_HistoryIsMostRecent ==
    /\ []HistoryBounded
    /\ [][HistoryStep]_vars

\* history is full, the triple of the start has been evicted, and the newest
\* entry is a typed temperature that was clamped to 50
C12_Witness ==
    /\ pc = "loop" /\ input_mode = "Menu"
    /\ message = "Temperature set"
    /\ Len(history) = 10
    /\ history[1][1] = F(10) /\ history[1][2] = F(20)
    /\ temperature = F(50)
    /\ history[10] = Current

=============================================================================
